---- MODULE Spec2Model ----
(***************************************************************************)
(* Stone-Paper-Scissors.c as a state machine.                              *)
(*                                                                         *)
(* The state is main's locals, the unread part of standard input, the      *)
(* position of the control flow (pc) and a few history variables that      *)
(* record what the program printed or spawned.  There is one action per    *)
(* blocking step of the program: the three reads, the loop test, the round *)
(* body, fork() and waitpid().  Every line a user types ends with a        *)
(* line-break; end-of-input is modelled at the move prompt, where the      *)
(* program goes on reading after it.                                       *)
(*                                                                         *)
(* Characters are one-character strings; a text is a sequence of them.     *)
(***************************************************************************)
EXTENDS Integers, Sequences, FiniteSets, TLC

(***************************************************************************)
(* Program constants.                                                       *)
(***************************************************************************)
MAX_PLAYER_NAME == 20
MAX_CHOICE_ATTEMPTS == 5
MAX_CHOICE_INPUT_LENGTH == 9
MAX_WIN_MESSAGE_BUFFER == 120
\* The range of the program's int (bestOf, n, playerWins, computerWins).
INT_MAX == 2147483647
INT_MIN == (-INT_MAX) - 1

(***************************************************************************)
(* Bounds of the model.                                                     *)
(***************************************************************************)
\* No more than MaxRounds comparisons are explored in one match.
MaxRounds == 4

(***************************************************************************)
(* Characters.                                                              *)
(***************************************************************************)
NL == "\n"
UpperCase == << "A", "B", "C", "D", "E", "F", "G", "H", "I", "J", "K", "L", "M",
                "N", "O", "P", "Q", "R", "S", "T", "U", "V", "W", "X", "Y", "Z" >>
LowerCase == << "a", "b", "c", "d", "e", "f", "g", "h", "i", "j", "k", "l", "m",
                "n", "o", "p", "q", "r", "s", "t", "u", "v", "w", "x", "y", "z" >>
Digits == << "0", "1", "2", "3", "4", "5", "6", "7", "8", "9" >>
WhiteSpace == { " ", "\t", NL }

\* tolower(): an upper-case letter becomes its lower-case letter, every other
\* character is returned as it is.
tolower(c) ==
    IF \E k \in 1..26 : UpperCase[k] = c
    THEN LowerCase[CHOOSE k \in 1..26 : UpperCase[k] = c]
    ELSE c

toupper(c) ==
    IF \E k \in 1..26 : LowerCase[k] = c
    THEN UpperCase[CHOOSE k \in 1..26 : LowerCase[k] = c]
    ELSE c

(***************************************************************************)
(* The C library on texts.                                                  *)
(***************************************************************************)
\* The characters fgets stores: at most room of them, stopping after a
\* line-break.
RECURSIVE TakeLine(_, _)
TakeLine(in, room) ==
    IF room = 0 \/ in = << >> THEN << >>
    ELSE IF Head(in) = NL THEN << NL >>
    ELSE << Head(in) >> \o TakeLine(Tail(in), room - 1)

\* fgets(buf, size, stdin) on the unread input in: the buffer's text and
\* what is left unread.
fgets(in, size) ==
    LET got == TakeLine(in, size - 1)
    IN  [ buf |-> got, rest |-> SubSeq(in, Len(got) + 1, Len(in)) ]

\* clearInputBuffer(): reads and discards up to and including the next
\* line-break.
RECURSIVE clearInputBuffer(_)
clearInputBuffer(in) ==
    IF in = << >> THEN << >>
    ELSE IF Head(in) = NL THEN Tail(in)
    ELSE clearInputBuffer(Tail(in))

\* A faulty variant, for comparison: the rest of a line that did not fit is
\* left unread.
StripOrLeave(f) ==
    LET len == Len(f.buf)
    IN  IF len > 0 /\ f.buf[len] = NL
        THEN [ buf |-> SubSeq(f.buf, 1, len - 1), rest |-> f.rest ]
        ELSE [ buf |-> f.buf, rest |-> f.rest ]

\* The text and the unread input after the "remove the trailing newline, or
\* clear the rest of the line" step that follows both fgets calls.
StripOrClear(f) ==
    LET len == Len(f.buf)
    IN  IF len > 0 /\ f.buf[len] = NL
        THEN [ buf |-> SubSeq(f.buf, 1, len - 1), rest |-> f.rest ]
        ELSE [ buf |-> f.buf, rest |-> clearInputBuffer(f.rest) ]

\* The lowercase loop of getPlayerChoice.
LowerAll(s) == [ k \in 1..Len(s) |-> tolower(s[k]) ]

RECURSIVE SkipSpace(_)
SkipSpace(in) ==
    IF in # << >> /\ Head(in) \in WhiteSpace THEN SkipSpace(Tail(in)) ELSE in

\* The value of a digit in a base, -1 when the character is no digit of it.
DigitValue(c, base) ==
    LET l == tolower(c)
    IN  IF \E k \in 1..10 : Digits[k] = c /\ k - 1 < base
        THEN (CHOOSE k \in 1..10 : Digits[k] = c) - 1
        ELSE IF base = 16 /\ \E k \in 1..6 : LowerCase[k] = l
        THEN (CHOOSE k \in 1..6 : LowerCase[k] = l) + 9
        ELSE -1

\* The digits of a number are accumulated from the left.
RECURSIVE ScanDigits(_, _, _, _)
ScanDigits(in, base, acc, count) ==
    IF in # << >> /\ DigitValue(Head(in), base) >= 0
    THEN ScanDigits(Tail(in), base, acc * base + DigitValue(Head(in), base), count + 1)
    ELSE [ value |-> acc, count |-> count, rest |-> in ]

\* scanf("%i", &bestOf) on the unread input: white space is skipped, then an
\* optional sign, then a hexadecimal (0x), octal (0) or decimal number.
\* result is scanf's return value: 1 when a number was converted, else 0.
scanf(in) ==
    LET s      == SkipSpace(in)
        signed == s # << >> /\ Head(s) \in { "+", "-" }
        neg    == signed /\ Head(s) = "-"
        t      == IF signed THEN Tail(s) ELSE s
        hex    == /\ Len(t) >= 3 /\ t[1] = "0" /\ tolower(t[2]) = "x"
                  /\ DigitValue(t[3], 16) >= 0
        base   == IF hex THEN 16 ELSE IF t # << >> /\ t[1] = "0" THEN 8 ELSE 10
        d      == ScanDigits(IF hex THEN Tail(Tail(t)) ELSE t, base, 0, 0)
    IN  IF d.count = 0
        THEN [ result |-> 0, value |-> 0, rest |-> d.rest ]
        ELSE [ result |-> 1, value |-> IF neg THEN -d.value ELSE d.value,
               rest |-> d.rest ]

\* C's integer division and remainder truncate toward zero (the divisor is
\* positive wherever the program divides).
CDiv(a, b) ==
    LET q == a \div b
    IN  IF a >= 0 \/ q * b = a THEN q ELSE q + 1
CRem(a, b) == a - b * CDiv(a, b)

\* randomNumber(min, max): rand() % (max - min + 1) + min, rand() being any
\* non-negative value.
randomNumber(min, max) == min..max

(***************************************************************************)
(* The lines the user types.                                                *)
(***************************************************************************)
UpperAll(s) == [ k \in 1..Len(s) |-> toupper(s[k]) ]
Capital(s) == [ k \in 1..Len(s) |-> IF k = 1 THEN toupper(s[k]) ELSE s[k] ]
Mixed(s) == [ k \in 1..Len(s) |-> IF k % 2 = 0 THEN toupper(s[k]) ELSE s[k] ]

\* The literals getPlayerChoice compares with.
stone == << "s", "t", "o", "n", "e" >>
paper == << "p", "a", "p", "e", "r" >>
scissors == << "s", "c", "i", "s", "s", "o", "r", "s" >>
\* The literal of the losing message.
Computer == << "C", "o", "m", "p", "u", "t", "e", "r" >>

\* Lines typed at the name prompt: the name "Computer" and a line longer than
\* the name buffer.
NameLines ==
    { Computer, [ k \in 1..22 |-> LowerCase[k] ] }

\* The longest name line typed.
MaxNameLine == 22

\* Name lines of every length around the size of the name buffer: the empty
\* line, a short name, and lines of one character less than the buffer
\* holds up to lines longer than the buffer.
NameLinesOfEveryLength ==
    { [ k \in 1..len |-> LowerCase[k] ] :
        len \in { 0, 1 } \cup ((MAX_PLAYER_NAME - 2)..MaxNameLine) }

\* Lines typed at the "Best of" prompt.
BestOfLines ==
    { << "1" >>, << "3" >>, << "7" >>, << "4" >>, << "2" >>, << "0" >>,
      << "-", "1" >>, << "-", "3" >>, << "-", "4" >>,
      << "+", "3" >>, << " ", "3" >>, << "3", "a", "b", "c" >>,
      << "a", "b", "c" >>, << "x", "3" >>, << "-" >>,
      << "0", "3" >>, << "0", "x", "3" >>, << "0", "1", "0" >>,
      << "2", "1", "4", "7", "4", "8", "3", "6", "4", "7" >>,
      << "2", "1", "4", "7", "4", "8", "3", "6", "4", "6" >> }

\* Lines typed at the move prompt: the three words in several spellings,
\* words with something before or after them, and other words.
MoveLines ==
    { stone, UpperAll(stone), Mixed(stone), Capital(paper), scissors,
      << >>, << "r", "o", "c", "k" >>, SubSeq(stone, 1, 4),
      stone \o << " " >>, << " " >> \o stone, stone \o << "x", "y", "z" >>,
      scissors \o << "x" >>, UpperAll(scissors) \o << " ", "n", "o", "w" >> }

(***************************************************************************)
(* The state.                                                               *)
(***************************************************************************)
VARIABLES
    pc,               \* where main is: "name", "bestOf", "loop", "choice",
                      \*   "round", "fork", "wait" or "exit"
    stdin,            \* the typed characters no read has consumed yet
    eof,              \* standard input has reached end-of-input
    playerName,       \* char playerName[MAX_PLAYER_NAME]
    scanResult,       \* int scanResult
    bestOf,           \* int bestOf
    n,                \* int n
    playerWins,       \* int playerWins
    computerWins,     \* int computerWins
    playerChoice,     \* int playerChoice
    computerChoice,   \* int computerChoice
    i,                \* getPlayerChoice's attempt counter
    tempPlayerChoice, \* getPlayerChoice's buffer
    exitCode,         \* the exit status, -1 while the program runs
    line,             \* history: the line given to the read main acts on
    rounds,           \* history: comparisons made so far
    scoreLines,       \* history: scoreboard lines printed
    winMessage,       \* history: the messages built, in order
    spawned,          \* history: fork() calls that created a child
    childStatus,      \* history: what each waitpid() reported, in order
    movePrompted,     \* history: a move prompt was printed
    diag              \* history: the message printed about the error that
                      \*   ends the program, "none" when there is none

vars == << pc, stdin, eof, playerName, scanResult, bestOf, n, playerWins, computerWins,
           playerChoice, computerChoice, i, tempPlayerChoice, exitCode, line,
           rounds, scoreLines, winMessage, spawned, childStatus, movePrompted,
           diag >>

game == << n, playerWins, computerWins, playerChoice, computerChoice, rounds,
           scoreLines, winMessage, spawned, childStatus >>

\* The state when main starts.  The locals that are not initialised are
\* never read before they are written; they start at 0 here.
Init ==
    /\ pc = "name"
    /\ stdin = << >>
    /\ eof = FALSE
    /\ playerName = << >>
    /\ scanResult = 0
    /\ bestOf = 0
    /\ n = 0
    /\ playerWins = 0
    /\ computerWins = 0
    /\ playerChoice = 0
    /\ computerChoice = 0
    /\ i = 0
    /\ tempPlayerChoice = << >>
    /\ exitCode = -1
    /\ line = << >>
    /\ rounds = 0
    /\ scoreLines = 0
    /\ winMessage = << >>
    /\ spawned = 0
    /\ childStatus = << >>
    /\ movePrompted = FALSE
    /\ diag = "none"

\* What a read finds on standard input: what is still unread, or, when
\* nothing is, the line the user types now.
Typed(l) == IF stdin = << >> THEN l \o << NL >> ELSE stdin

(***************************************************************************)
(* main: the player's name.                                                 *)
(***************************************************************************)
ReadNameFrom(lines) ==
    /\ pc = "name"
    /\ \E l \in lines :
         LET r == StripOrClear(fgets(Typed(l), MAX_PLAYER_NAME))
         IN  /\ playerName' = r.buf
             /\ stdin' = r.rest
             /\ line' = l
    /\ pc' = "bestOf"
    /\ UNCHANGED << eof, scanResult, bestOf, i, tempPlayerChoice, exitCode,
                    movePrompted, diag >>
    /\ UNCHANGED game

ReadName == ReadNameFrom(NameLines)

(***************************************************************************)
(* main: the best-of count and the win threshold.                           *)
(***************************************************************************)
\* A faulty variant, for comparison: the sign is not tested.
RejectedBestOfEvenOnly(b) == CRem(b, 2) = 0
\* The test that rejects a count.
RejectedBestOf(b) == (CRem(b, 2) = 0) \/ (b < 0)

\* int n = (bestOf + 1) / 2.  bestOf + 1 overflows for INT_MAX, which is
\* undefined: the sum wraps to INT_MIN, or the division is done on the sum
\* that was not truncated.
Threshold(b) ==
    IF b = INT_MAX
    THEN { CDiv(INT_MIN, 2), CDiv(INT_MAX - 1, 2) + 1 }
    ELSE { CDiv(b + 1, 2) }

ReadBestOf ==
    /\ pc = "bestOf"
    /\ \E l \in BestOfLines :
         \* scanf keeps reading while it has seen white space only
         /\ SkipSpace(Typed(l)) # << >>
         /\ LET s == scanf(Typed(l))
                b == IF s.result = 1 THEN s.value ELSE bestOf
            IN  /\ scanResult' = s.result
                /\ bestOf' = b
                /\ stdin' = clearInputBuffer(s.rest)
                /\ line' = l
                /\ IF s.result # 1
                   THEN /\ diag' = "Invalid input..."
                        /\ exitCode' = 1
                        /\ pc' = "exit"
                        /\ n' = n
                   ELSE IF RejectedBestOf(b)
                   THEN /\ diag' = "Only positive odd integers are valid..."
                        /\ exitCode' = 1
                        /\ pc' = "exit"
                        /\ n' = n
                   ELSE /\ n' \in Threshold(b)
                        /\ pc' = "loop"
                        /\ UNCHANGED << diag, exitCode >>
    /\ UNCHANGED << eof, playerName, playerWins, computerWins, playerChoice,
                    computerChoice, i, tempPlayerChoice, rounds, scoreLines,
                    winMessage, spawned, childStatus, movePrompted >>

(***************************************************************************)
(* main: the match loop.                                                    *)
(***************************************************************************)
\* A faulty variant, for comparison: the loop goes on until both sides are
\* at the threshold.
LoopCondEither(pw, cw, need) == (pw < need) \/ (cw < need)
\* while ((playerWins < n) && (computerWins < n))
LoopCond(pw, cw, need) == (pw < need) /\ (cw < need)

\* The loop test.  When it fails main returns 0; when it holds main calls
\* getPlayerChoice, whose attempt counter starts at 0.
LoopTest ==
    /\ pc = "loop"
    /\ IF LoopCond(playerWins, computerWins, n)
       THEN /\ pc' = "choice"
            /\ i' = 0
            /\ UNCHANGED exitCode
       ELSE /\ pc' = "exit"
            /\ exitCode' = 0
            /\ UNCHANGED i
    /\ UNCHANGED << stdin, eof, playerName, scanResult, bestOf,
                    tempPlayerChoice, line, movePrompted, diag >>
    /\ UNCHANGED game

(***************************************************************************)
(* getPlayerChoice.                                                         *)
(***************************************************************************)
\* The strcmp chain: 1, 2 or 3 for the three words, 0 for "Invalid Choice".
MatchChoice(buf) ==
    IF buf = stone THEN 1
    ELSE IF buf = paper THEN 2
    ELSE IF buf = scissors THEN 3
    ELSE 0

\* One pass of the for loop after its fgets call, on the buffer f.buf and
\* the unread input f.rest: the buffer after the strip-or-clear step and the
\* lowercase loop, what is left unread, and the value the strcmp chain
\* gives.
ChoiceAfterRead(f) ==
    LET r   == StripOrClear(f)
        low == LowerAll(r.buf)
    IN  [ buf |-> low, rest |-> r.rest, value |-> MatchChoice(low) ]

\* One pass of the for loop on the unread input, when fgets reads a line.
ChoiceAttempt(in) == ChoiceAfterRead(fgets(in, MAX_CHOICE_INPUT_LENGTH))

\* The word the strcmp chain accepts as move m.
WordOf(m) == IF m = 1 THEN stone ELSE IF m = 2 THEN paper ELSE scissors

\* At end-of-input fgets returns NULL, which getPlayerChoice does not test,
\* and leaves the buffer as it is.  The buffer is declared in the loop body
\* without an initialiser, so its value is indeterminate: it holds what
\* earlier use of the stack left there, which may be the text of the
\* previous pass, the word the previous call accepted, or bytes that are no
\* text at all (the empty string here).
IndeterminateChoice ==
    { << >>, tempPlayerChoice }
      \cup (IF playerChoice \in 1..3 THEN { WordOf(playerChoice) } ELSE { })

\* A faulty variant, for comparison: one attempt too many.
AttemptsLeftOffByOne(k) == k <= MAX_CHOICE_ATTEMPTS
\* for (int i = 0; i < MAX_CHOICE_ATTEMPTS; i++): the loop goes on.
AttemptsLeft(k) == k < MAX_CHOICE_ATTEMPTS

\* The end of one attempt, after the read and the comparison gave a.  A
\* valid word returns to main; an invalid one counts, and the attempt that
\* makes the count MAX_CHOICE_ATTEMPTS ends the process with exit(1).
Compared(a) ==
    /\ IF a.value # 0
       THEN /\ playerChoice' = a.value
            /\ pc' = "round"
            \* the locals end with the call
            /\ i' = 0
            /\ tempPlayerChoice' = << >>
            /\ UNCHANGED << exitCode, diag >>
       ELSE /\ i' = i + 1
            /\ tempPlayerChoice' = a.buf
            /\ UNCHANGED playerChoice
            /\ IF AttemptsLeft(i + 1)
               THEN UNCHANGED << pc, exitCode, diag >>
               ELSE /\ diag' = "Too many invalid inputs..."
                    /\ exitCode' = 1
                    /\ pc' = "exit"
    /\ movePrompted' = TRUE
    /\ UNCHANGED << playerName, scanResult, bestOf, n, playerWins, computerWins,
                    computerChoice, rounds, scoreLines, winMessage, spawned,
                    childStatus >>

\* One attempt at which the user types a line: the prompt, the read and the
\* comparison.
Attempt ==
    /\ pc = "choice"
    /\ AttemptsLeft(i)
    /\ ~eof
    /\ \E l \in MoveLines :
         LET a == ChoiceAttempt(Typed(l))
         IN  /\ stdin' = a.rest
             /\ line' = l
             /\ Compared(a)
    /\ UNCHANGED eof

\* An attempt at which standard input is at end-of-input, or reaches it
\* because the user closes it at the prompt: fgets reads nothing, and so
\* does clearInputBuffer when it is called.  From then on every read finds
\* end-of-input.
AttemptAtEndOfInput ==
    /\ pc = "choice"
    /\ AttemptsLeft(i)
    /\ stdin = << >>
    /\ \E b \in IndeterminateChoice :
         Compared(ChoiceAfterRead([ buf |-> b, rest |-> << >> ]))
    /\ eof' = TRUE
    /\ line' = << >>
    /\ UNCHANGED stdin

(***************************************************************************)
(* main: one round.                                                         *)
(***************************************************************************)
\* A faulty variant, for comparison: a tie gives both sides a point.
RoundOutcomeTieScores(p, c) ==
    IF p = 1
    THEN IF c = 1 THEN << 1, 1 >> ELSE IF c = 2 THEN << 0, 1 >> ELSE << 1, 0 >>
    ELSE IF p = 2
    THEN IF c = 1 THEN << 1, 0 >> ELSE IF c = 2 THEN << 1, 1 >> ELSE << 0, 1 >>
    ELSE IF c = 1 THEN << 0, 1 >> ELSE IF c = 2 THEN << 1, 0 >> ELSE << 1, 1 >>

\* A faulty variant, for comparison: Scissors against Paper goes to the
\* computer.
RoundOutcomeSwapped(p, c) ==
    IF p = 1
    THEN IF c = 1 THEN << 0, 0 >> ELSE IF c = 2 THEN << 0, 1 >> ELSE << 1, 0 >>
    ELSE IF p = 2
    THEN IF c = 1 THEN << 1, 0 >> ELSE IF c = 2 THEN << 0, 0 >> ELSE << 0, 1 >>
    ELSE IF c = 1 THEN << 0, 1 >> ELSE IF c = 2 THEN << 0, 1 >> ELSE << 0, 0 >>
\* The nested if of the round: what is added to playerWins and to
\* computerWins for a player move p and a computer move c.
RoundOutcome(p, c) ==
    IF p = 1
    THEN IF c = 1 THEN << 0, 0 >> ELSE IF c = 2 THEN << 0, 1 >> ELSE << 1, 0 >>
    ELSE IF p = 2
    THEN IF c = 1 THEN << 1, 0 >> ELSE IF c = 2 THEN << 0, 0 >> ELSE << 0, 1 >>
    ELSE IF c = 1 THEN << 0, 1 >> ELSE IF c = 2 THEN << 1, 0 >> ELSE << 0, 0 >>

\* A faulty variant, for comparison: the scoreboard is also printed in the
\* deciding round.
ScoreboardCondEither(pw, cw, need) == (pw # need) \/ (cw # need)
\* if ((playerWins != n) && (computerWins != n)): the scoreboard is printed.
ScoreboardCond(pw, cw, need) == (pw # need) /\ (cw # need)

\* The number of characters printf("%i") writes.
RECURSIVE DecimalWidth(_)
DecimalWidth(k) ==
    IF k < 0 THEN 1 + DecimalWidth(-k)
    ELSE IF k < 10 THEN 1 ELSE 1 + DecimalWidth(k \div 10)

\* A faulty variant, for comparison: the player is named when the computer
\* has won.
BuildMessageLoser(name, pw, cw, need) ==
    [ name |-> name, player |-> pw, computer |-> cw,
      winner |-> IF cw = need THEN name ELSE Computer, cut |-> FALSE ]
\* The message snprintf builds: the name and the two counts of the first
\* line, the winner of the second line, and whether the buffer cut the text.
\* The literal characters of the format are 35 before the line-break, the
\* line-break, and 9 after the winner.
BuildMessage(name, pw, cw, need) ==
    LET winner == IF pw = need THEN name ELSE Computer
        length == Len(name) + DecimalWidth(pw) + DecimalWidth(cw) + Len(winner)
                  + 35 + 1 + 9
    IN  [ name |-> name, player |-> pw, computer |-> cw, winner |-> winner,
          cut |-> length > MAX_WIN_MESSAGE_BUFFER - 1 ]

\* The body of the loop after getPlayerChoice returned: the computer's move,
\* the comparison, and then the scoreboard or the final message.
PlayRound ==
    /\ pc = "round"
    /\ rounds < MaxRounds
    /\ \E c \in randomNumber(1, 3) :
         LET d  == RoundOutcome(playerChoice, c)
             pw == playerWins + d[1]
             cw == computerWins + d[2]
         IN  /\ computerChoice' = c
             /\ playerWins' = pw
             /\ computerWins' = cw
             /\ IF ScoreboardCond(pw, cw, n)
                THEN /\ scoreLines' = scoreLines + 1
                     /\ pc' = "loop"
                     /\ UNCHANGED winMessage
                ELSE /\ winMessage' = Append(winMessage, BuildMessage(playerName, pw, cw, n))
                     /\ pc' = "fork"
                     /\ UNCHANGED scoreLines
    /\ rounds' = rounds + 1
    /\ line' = << >>
    /\ UNCHANGED << stdin, eof, playerName, scanResult, bestOf, n, playerChoice, i,
                    tempPlayerChoice, exitCode, spawned, childStatus,
                    movePrompted, diag >>

(***************************************************************************)
(* main: the banner.                                                        *)
(***************************************************************************)
\* fork(): it fails (-1), or the child that runs figlet exists.
Fork ==
    /\ pc = "fork"
    /\ \E created \in BOOLEAN :
         IF created
         THEN /\ spawned' = spawned + 1
              /\ pc' = "wait"
              /\ UNCHANGED << exitCode, diag >>
         ELSE /\ diag' = "Fork failed"
              /\ exitCode' = 1
              /\ pc' = "exit"
              /\ UNCHANGED spawned
    /\ UNCHANGED << stdin, eof, playerName, scanResult, bestOf, n, playerWins,
                    computerWins, playerChoice, computerChoice, i,
                    tempPlayerChoice, line, rounds, scoreLines, winMessage,
                    childStatus, movePrompted >>

\* What waitpid can report of the child: it exited with status 0 (figlet
\* succeeded), it exited with another status (figlet failed, or execvp
\* failed and the child called _exit(1)), or it was ended by a signal.
ChildStatuses ==
    { [ exited |-> TRUE, status |-> 0 ], [ exited |-> TRUE, status |-> 1 ],
      [ exited |-> TRUE, status |-> 2 ], [ exited |-> FALSE, status |-> 0 ] }

\* The status main returns with after waitpid, -1 when it does not return
\* there but goes on to the loop test.
AfterWait(st) ==
    IF st.exited
    THEN IF st.status # 0 THEN 1 ELSE -1
    ELSE 1

\* waitpid() and the checks of the child's status.
Wait ==
    /\ pc = "wait"
    /\ \E st \in ChildStatuses :
         /\ childStatus' = Append(childStatus, st)
         /\ IF AfterWait(st) = -1
            THEN /\ pc' = "loop"
                 /\ UNCHANGED << exitCode, diag >>
            ELSE /\ diag' = IF st.exited
                            THEN "Child process failed to execute"
                            ELSE "Child process terminated abnormally"
                 /\ exitCode' = AfterWait(st)
                 /\ pc' = "exit"
    /\ UNCHANGED << stdin, eof, playerName, scanResult, bestOf, n, playerWins,
                    computerWins, playerChoice, computerChoice, i,
                    tempPlayerChoice, line, rounds, scoreLines, winMessage,
                    spawned, movePrompted >>

Next ==
    \/ ReadName
    \/ ReadBestOf
    \/ LoopTest
    \/ Attempt
    \/ AttemptAtEndOfInput
    \/ PlayRound
    \/ Fork
    \/ Wait

Spec == Init /\ [][Next]_vars

\* The program from its start to the first accepted move, with name lines
\* of every length.
NextInput ==
    \/ ReadNameFrom(NameLinesOfEveryLength)
    \/ ReadBestOf
    \/ LoopTest
    \/ Attempt
    \/ AttemptAtEndOfInput

SpecInput == Init /\ [][NextInput]_vars

(***************************************************************************)
(* Vocabulary of the properties.                                            *)
(***************************************************************************)
Stone == 1
Paper == 2
Scissors == 3
Moves == { Stone, Paper, Scissors }

\* The rule table: the pairs (winner's move, loser's move).
Beats == { << Stone, Scissors >>, << Scissors, Paper >>, << Paper, Stone >> }

\* The program ended at the best-of check.
BestOfRefused ==
    /\ pc = "exit"
    /\ diag \in { "Invalid input...", "Only positive odd integers are valid..." }

\* The best-of count was read and accepted, so n is set.
BestOfAccepted == pc \notin { "name", "bestOf" } /\ ~BestOfRefused

\* The program ended in getPlayerChoice.
ChoiceExhausted == pc = "exit" /\ diag = "Too many invalid inputs..."

\* A side has reached the win threshold in a round.
MatchEnded == rounds > 0 /\ (playerWins = n \/ computerWins = n)

(***************************************************************************)
(* C1: a round scores by the rule table.  Whenever the round body runs, the *)
(* player's counter alone goes up by one when the player's move beats the   *)
(* computer's, no counter changes exactly when the moves are equal, and     *)
(* the computer's counter alone goes up by one in the three other pairs;    *)
(* the player wins on (m1, m2) exactly when the computer wins on (m2, m1).  *)
(***************************************************************************)
C1_RoundFollowsRuleTable ==
    [][ pc = "round" =>
          LET p  == playerChoice
              c  == computerChoice'
              dp == playerWins' - playerWins
              dc == computerWins' - computerWins
          IN  /\ p \in Moves /\ c \in Moves
              /\ << p, c >> \in Beats => (dp = 1 /\ dc = 0)
              /\ (p = c) <=> (dp = 0 /\ dc = 0)
              /\ (p # c /\ << p, c >> \notin Beats) => (dp = 0 /\ dc = 1)
              /\ \A m1 \in Moves, m2 \in Moves :
                   (RoundOutcome(m1, m2) = << 1, 0 >>)
                     <=> (RoundOutcome(m2, m1) = << 0, 1 >>)
      ]_vars

\* Scissors against Paper was just scored for the player.
C1_Witness ==
    /\ rounds = 1
    /\ playerChoice = Scissors
    /\ computerChoice = Paper
    /\ playerWins = 1
    /\ computerWins = 0

(***************************************************************************)
(* Reading a line as a decimal number, for the best-of properties.          *)
(***************************************************************************)
IsDigit(c) == \E k \in 1..10 : Digits[k] = c
IsLetter(c) == \E k \in 1..26 : LowerCase[k] = c \/ UpperCase[k] = c
Unsigned(l) == IF l # << >> /\ l[1] \in { "+", "-" } THEN Tail(l) ELSE l

\* The line is a decimal numeral: an optional sign and digits, with no
\* leading zero.
PlainDecimal(l) ==
    LET u == Unsigned(l)
    IN  /\ u # << >>
        /\ \A k \in 1..Len(u) : IsDigit(u[k])
        /\ u[1] # "0" \/ Len(u) = 1

\* The number a sequence of decimal digits denotes, from its last digit.
RECURSIVE DigitsNumber(_)
DigitsNumber(u) ==
    IF u = << >> THEN 0
    ELSE 10 * DigitsNumber(SubSeq(u, 1, Len(u) - 1))
         + (CHOOSE k \in 0..9 : Digits[k + 1] = u[Len(u)])

NumberOf(l) ==
    IF l # << >> /\ l[1] = "-" THEN -DigitsNumber(Unsigned(l))
    ELSE DigitsNumber(Unsigned(l))

PositiveOdd(k) == k > 0 /\ k % 2 = 1

(***************************************************************************)
(* C2: the best-of count is accepted exactly when it is a positive odd      *)
(* integer.  Once the count is read, the program goes on to the match if    *)
(* and only if scanf converted a number and that number is positive and     *)
(* odd; a line that is a decimal numeral is accepted if and only if the     *)
(* number it denotes is positive and odd, and a line that starts with a     *)
(* letter is refused.  A refused count ends the program with status 1, with *)
(* no move prompt, no round, no counter changed, no message and no child,   *)
(* and nothing runs after it.                                               *)
(***************************************************************************)
C2_BestOfValidation ==
    /\ pc \notin { "name", "bestOf" } =>
         /\ BestOfAccepted <=> (scanResult = 1 /\ PositiveOdd(bestOf))
         /\ BestOfRefused =>
              diag = IF scanResult = 1
                     THEN "Only positive odd integers are valid..."
                     ELSE "Invalid input..."
    /\ (pc \notin { "name", "bestOf" } /\ ~movePrompted) =>
         /\ PlainDecimal(line) => (BestOfAccepted <=> PositiveOdd(NumberOf(line)))
         /\ (line # << >> /\ IsLetter(line[1])) => BestOfRefused
    /\ BestOfRefused =>
         /\ exitCode = 1
         /\ ~movePrompted
         /\ rounds = 0 /\ playerWins = 0 /\ computerWins = 0
         /\ scoreLines = 0 /\ winMessage = << >> /\ spawned = 0
         /\ ~ENABLED Next

\* The count -1 was read and refused.
C2_Witness ==
    /\ BestOfRefused
    /\ line = << "-", "1" >>
    /\ scanResult = 1
    /\ bestOf = -1
    /\ exitCode = 1

(***************************************************************************)
(* C3: a move line is a move exactly when the whole line, in lowercase, is  *)
(* one of the three words.  After an attempt, getPlayerChoice has returned  *)
(* if and only if the lowercase of the line it was given is "stone",        *)
(* "paper" or "scissors", and it returned 1, 2 or 3 for them; for every     *)
(* other line the attempt was counted as invalid.                           *)
(***************************************************************************)
\* An attempt has just been made, and line is the line it was given.
AfterAttempt == pc = "round" \/ (pc = "choice" /\ i > 0) \/ ChoiceExhausted

C3_WholeLineDecides ==
    AfterAttempt =>
        LET w == [ k \in 1..Len(line) |-> tolower(line[k]) ]
        IN  /\ (pc = "round") <=> (w \in { stone, paper, scissors })
            /\ pc = "round" =>
                 /\ (playerChoice = Stone) <=> (w = stone)
                 /\ (playerChoice = Paper) <=> (w = paper)
                 /\ (playerChoice = Scissors) <=> (w = scissors)

(***************************************************************************)
(* C4: five invalid lines in a row at one round's prompt end the program,   *)
(* and nothing else about move input does.  The attempt count starts at 0   *)
(* whenever a round's prompt starts and goes up by one with each line that  *)
(* getPlayerChoice turns down, none of which is one of the three words; an  *)
(* attempt ends the program exactly when it makes the count                 *)
(* MAX_CHOICE_ATTEMPTS, and then the exit status is 1; no attempt changes   *)
(* a win counter, builds a message or creates a child.                      *)
(***************************************************************************)
C4_FiveInvalidLinesEnd ==
    [][ /\ (pc # "choice" /\ pc' = "choice") => i' = 0
        /\ pc = "choice" =>
             /\ i < MAX_CHOICE_ATTEMPTS
             /\ pc' \in { "choice", "round", "exit" }
             /\ pc' # "round" =>
                  /\ i' = i + 1
                  /\ [ k \in 1..Len(line') |-> tolower(line'[k]) ]
                       \notin { stone, paper, scissors }
             /\ (pc' = "exit") <=> (pc' # "round" /\ i' = MAX_CHOICE_ATTEMPTS)
             /\ pc' = "exit" => (exitCode' = 1 /\ ChoiceExhausted')
             /\ pc' # "exit" => exitCode' = -1
             /\ playerWins' = playerWins /\ computerWins' = computerWins
             /\ rounds' = rounds /\ winMessage' = winMessage
             /\ spawned' = spawned
        /\ (pc # "choice" /\ pc' = "exit") => ~ChoiceExhausted'
      ]_vars

\* The program ended on the fifth invalid line of a round that followed a
\* scored round, with the score of that earlier round and no child.
C4_Witness ==
    /\ ChoiceExhausted
    /\ i = MAX_CHOICE_ATTEMPTS
    /\ exitCode = 1
    /\ rounds = 1
    /\ playerWins = 1
    /\ computerWins = 0
    /\ spawned = 0
    /\ winMessage = << >>

(***************************************************************************)
(* C5: the counters stay within the threshold.  Once the count is accepted, *)
(* playerWins and computerWins are between 0 and n and are not both n; when *)
(* the loop has ended exactly one of them is n, the other is smaller, and   *)
(* their sum is at most bestOf.                                             *)
(***************************************************************************)
\* The match loop is over: its last round went to the banner, or main
\* returned after the loop.
LoopEnded ==
    \/ pc \in { "fork", "wait" }
    \/ pc = "exit" /\ BestOfAccepted /\ ~ChoiceExhausted

C5_CountersWithinThreshold ==
    BestOfAccepted =>
        /\ 0 <= playerWins /\ playerWins <= n
        /\ 0 <= computerWins /\ computerWins <= n
        /\ ~(playerWins = n /\ computerWins = n)
        /\ LoopEnded =>
             /\ (playerWins = n) # (computerWins = n)
             /\ playerWins = n => computerWins < n
             /\ computerWins = n => playerWins < n
             /\ playerWins + computerWins <= bestOf

(***************************************************************************)
(* C6: exit status 0 means the banner was shown.  When the program has      *)
(* ended, its status is 0 if and only if a side reached n, one child was    *)
(* created and waitpid reported that it exited with status 0; a failed      *)
(* fork, a child that exited with another status and a child ended by a     *)
(* signal each give status 1 and a diagnostic; at most one child is ever    *)
(* created.                                                                 *)
(***************************************************************************)
C6_ExitZeroIffBannerShown ==
    /\ spawned <= 1
    /\ Len(childStatus) <= spawned
    /\ pc = "exit" =>
         /\ (exitCode = 0) <=>
              /\ MatchEnded
              /\ spawned = 1
              /\ childStatus = << [ exited |-> TRUE, status |-> 0 ] >>
         /\ (MatchEnded /\ spawned = 0) =>
              (exitCode = 1 /\ diag = "Fork failed")
         /\ (childStatus # << >> /\ childStatus[1].exited /\ childStatus[1].status # 0) =>
              (exitCode = 1 /\ diag = "Child process failed to execute")
         /\ (childStatus # << >> /\ ~childStatus[1].exited) =>
              (exitCode = 1 /\ diag = "Child process terminated abnormally")

(***************************************************************************)
(* C7: the result message.  A message is built exactly when a side has      *)
(* reached n in a round, and never a second one; it carries the player's    *)
(* name and the values playerWins and computerWins have from then on, it    *)
(* is not cut by the buffer, and its winner is the player's name when       *)
(* playerWins is n and "Computer" otherwise.  Once a side has reached n no  *)
(* further prompt or round follows.  With bestOf 1, Stone against Scissors  *)
(* in the first round ends the loop with playerWins 1, computerWins 0 and   *)
(* the player named.                                                        *)
(***************************************************************************)
C7_ResultMessage ==
    /\ Len(winMessage) <= 1
    /\ MatchEnded <=> (Len(winMessage) = 1)
    /\ MatchEnded =>
         /\ pc \in { "fork", "wait", "loop", "exit" }
         /\ winMessage[1].name = playerName
         /\ winMessage[1].player = playerWins
         /\ winMessage[1].computer = computerWins
         /\ ~winMessage[1].cut
         /\ playerWins = n => winMessage[1].winner = playerName
         /\ playerWins # n => winMessage[1].winner = Computer
    /\ (bestOf = 1 /\ rounds = 1 /\ pc # "round"
          /\ playerChoice = Stone /\ computerChoice = Scissors) =>
         /\ MatchEnded
         /\ playerWins = 1 /\ computerWins = 0
         /\ winMessage[1].winner = playerName

\* Best of 1, Stone against Scissors: the message names the player.
C7_Witness ==
    /\ bestOf = 1
    /\ rounds = 1
    /\ playerChoice = Stone
    /\ computerChoice = Scissors
    /\ playerWins = 1
    /\ computerWins = 0
    /\ Len(winMessage) = 1
    /\ winMessage[1].winner = playerName
    /\ playerName # Computer

(***************************************************************************)
(* C8: the scoreboard.  One scoreboard line has been printed for every      *)
(* round played, ties included, except the round in which a side reached    *)
(* n: that round prints none, and none is printed after it.                 *)
(***************************************************************************)
C8_ScoreboardOnlyWhileOpen ==
    /\ scoreLines = IF MatchEnded THEN rounds - 1 ELSE rounds
    /\ MatchEnded => pc \notin { "choice", "round" }

\* A tie round printed the scoreboard, the round that decided did not.
C8_Witness ==
    /\ MatchEnded
    /\ rounds = 2
    /\ playerWins + computerWins = 1
    /\ scoreLines = 1
    /\ Len(winMessage) = 1

(***************************************************************************)
(* C9: the win threshold.  For every accepted bestOf, n is positive and is  *)
(* bestOf / 2 rounded up, and main does not return 0 without a round.       *)
(***************************************************************************)
C9_ThresholdIsCeiling ==
    BestOfAccepted =>
        /\ n > 0
        /\ n = ((bestOf - 1) \div 2) + 1
        /\ (pc = "exit" /\ exitCode = 0) => rounds >= 1

(***************************************************************************)
(* C10: a match takes at most bestOf rounds, ties included.                 *)
(***************************************************************************)
C10_AtMostBestOfRounds == BestOfAccepted => rounds <= bestOf

(***************************************************************************)
(* C10 as amended: a match takes at most bestOf rounds that are not ties.   *)
(* A round that is not a tie adds one to exactly one counter, so there are  *)
(* playerWins + computerWins of them; tie rounds come on top.               *)
(***************************************************************************)
C10_AtMostBestOfDecisiveRounds ==
    BestOfAccepted =>
        /\ playerWins + computerWins <= bestOf
        /\ playerWins + computerWins <= rounds

\* Best of 1: two ties and then the deciding round.
C10_Witness ==
    /\ bestOf = 1
    /\ rounds = 3
    /\ playerWins + computerWins = 1
    /\ MatchEnded

(***************************************************************************)
(* C11: a name line of any length is consumed whole.  When the best-of      *)
(* prompt is reached the stored name is the first min(length, 19)           *)
(* characters of the name line without its line-break, and nothing of the   *)
(* line is left unread, also when the line has exactly 19 characters and    *)
(* only the line-break did not fit.  No later read finds anything left      *)
(* over: a decimal numeral typed at the best-of prompt is read as its       *)
(* value, and one of the three words typed at the move prompt is accepted   *)
(* as that move.                                                            *)
(***************************************************************************)
C11_NameLineConsumedWhole ==
    /\ stdin = << >>
    /\ pc = "bestOf" =>
         LET kept == IF Len(line) < MAX_PLAYER_NAME - 1
                     THEN Len(line) ELSE MAX_PLAYER_NAME - 1
         IN  /\ Len(playerName) = kept
             /\ \A k \in 1..kept : playerName[k] = line[k]
    /\ (pc \in { "loop", "exit" } /\ ~movePrompted /\ PlainDecimal(line)) =>
         (scanResult = 1 /\ bestOf = NumberOf(line))
    /\ AfterAttempt =>
         /\ LowerAll(line) = stone => (pc = "round" /\ playerChoice = Stone)
         /\ LowerAll(line) = paper => (pc = "round" /\ playerChoice = Paper)
         /\ LowerAll(line) = scissors
              => (pc = "round" /\ playerChoice = Scissors)

\* A name of exactly 19 characters was read: it is stored whole and its
\* line-break is not left for the best-of read.
C11_Witness ==
    /\ pc = "bestOf"
    /\ Len(line) = MAX_PLAYER_NAME - 1
    /\ playerName = line
    /\ stdin = << >>

(***************************************************************************)
(* C12: what a round and a move attempt change.  A round adds exactly 1 to  *)
(* playerWins and nothing to computerWins when the player's move beats the  *)
(* computer's, exactly 1 to computerWins and nothing to playerWins when the *)
(* computer's move beats the player's, and nothing to either on a tie; no   *)
(* step of the program decreases a counter, a move attempt changes no       *)
(* counter, and the player name, bestOf and n are changed by no round and   *)
(* by no move attempt, valid or invalid.                                    *)
(***************************************************************************)
C12_RoundChangesOneCounterByOne ==
    [][ /\ playerWins' >= playerWins
        /\ computerWins' >= computerWins
        /\ pc = "round" =>
             LET p == playerChoice
                 c == computerChoice'
                 d == << playerWins' - playerWins,
                         computerWins' - computerWins >>
             IN  /\ d \in { << 0, 0 >>, << 1, 0 >>, << 0, 1 >> }
                 /\ << p, c >> \in Beats => d = << 1, 0 >>
                 /\ << c, p >> \in Beats => d = << 0, 1 >>
                 /\ p = c => d = << 0, 0 >>
        /\ pc = "choice" => UNCHANGED << playerWins, computerWins >>
        /\ pc \in { "round", "choice" } =>
             UNCHANGED << playerName, bestOf, n >>
      ]_vars

\* Stone against Paper was just scored for the computer in a best of 3
\* played under the name "Computer": the round left the player's counter,
\* the name, the count and the threshold as they were.
C12_Witness ==
    /\ rounds = 1
    /\ playerChoice = Stone
    /\ computerChoice = Paper
    /\ playerWins = 0
    /\ computerWins = 1
    /\ playerName = Computer
    /\ bestOf = 3
    /\ n = 2

(***************************************************************************)
(* C13: an accepted match ends by a side reaching the threshold.  When the  *)
(* program has ended after the best-of count was accepted, and not because  *)
(* the player ran out of move attempts, a counter has reached n in a round  *)
(* and the banner renderer was spawned exactly once, unless fork() itself   *)
(* failed; once a counter has reached n no further move prompt is issued    *)
(* and the renderer is never spawned a second time.                         *)
(***************************************************************************)
C13_AcceptedMatchEndsWithBanner ==
    /\ (pc = "exit" /\ BestOfAccepted /\ ~ChoiceExhausted) =>
         (MatchEnded /\ (spawned = 1 \/ diag = "Fork failed"))
    /\ MatchEnded =>
         (pc \in { "fork", "wait", "loop", "exit" } /\ spawned <= 1)

(***************************************************************************)
(* C14: end-of-input at a move prompt.  A read that fails because standard  *)
(* input is at end-of-input is counted as an invalid attempt and never      *)
(* returns a move; once end-of-input has been met no counter changes; and   *)
(* when the program has ended after it, it ended with a non-zero status     *)
(* because the attempts ran out, whatever was played in earlier rounds.     *)
(***************************************************************************)
C14_EndOfInputIsInvalidAttempt ==
    [][ /\ (pc = "choice" /\ eof') => (pc' # "round" /\ i' = i + 1)
        /\ eof => UNCHANGED << playerWins, computerWins >>
        /\ (eof' /\ pc' = "exit") =>
             (exitCode' # 0 /\ diag' = "Too many invalid inputs...")
      ]_vars

====
